---- MODULE Spec2Model ----
(***************************************************************************)
(* Fingering optimizer of sid-fret: the hardcoded 4-string position        *)
(* generator, the pattern metrics, the scoring model, the five fingering   *)
(* strategies and the mode dispatch of calculate_fingering.                *)
(*                                                                         *)
(* Scores are f32 in the source.  Every weight is a multiple of 0.1 and    *)
(* every metric a small natural number, so a score is represented here by  *)
(* the integer 10 * score (tenths).                                        *)
(***************************************************************************)
EXTENDS Integers, Sequences, FiniteSets, TLC

VARIABLES pitches, positions, call, out

vars == <<pitches, positions, call, out>>

(***************************************************************************)
(* Bounds of the explored inputs.                                          *)
(***************************************************************************)
MaxLen == 3

MaxPatLen == 3

U8Max == 255

NumStrings == 4

MaxFret == 24

\* Pitches a caller puts into a sequence of two or more: the pitches of the
\* repository's tests, the open strings, the ends of the range, and one pitch
\* no string can play.
PitchInputs == {0, 1, 3, 5, 7, 8, 10, 15, 24, 39, 40}

\* Mode strings a caller passes: every alias and some strings that are none.
ModeInputs ==
    {"shortest", "position", "position-stable", "string", "string-priority",
     "open", "open-string", "balanced", "xyz", "invalid", "", "Shortest"}

\* Base positions a caller passes to calculate_position_stable.
BaseInputs == {0, 1, 5, 9}

\* Positions a caller puts into a hand-built pattern.
StringInputs == {3, 4}

FretInputs == {0, 2, 3, 4, 5, 10}

(***************************************************************************)
(* Helpers for Rust's iterator semantics.                                  *)
(***************************************************************************)
Abs(x) == IF x < 0 THEN -x ELSE x

\* Ord on tuples of equal length (and on a scalar held as a 1-tuple).
LexLess(a, b) ==
    \E i \in DOMAIN a :
        /\ a[i] < b[i]
        /\ \A j \in DOMAIN a : j < i => a[j] = b[j]

\* Iterator::min_by_key / min_by keep the FIRST of several equal minima.
FirstMinIndex(keys) ==
    CHOOSE i \in DOMAIN keys :
        /\ \A j \in DOMAIN keys : j < i => LexLess(keys[i], keys[j])
        /\ \A j \in DOMAIN keys : j > i => ~LexLess(keys[j], keys[i])

\* keys[i] is the key the closure gives for cands[i].
min_by_key(cands, keys) == cands[FirstMinIndex(keys)]

(***************************************************************************)
(* fingering/position.rs                                                   *)
(***************************************************************************)
FretPosition(s, f) == [string |-> s, fret |-> f]

\* Variant: the zone is computed from the fret without stepping back by one.
position_zero_based(p) ==
    IF p.fret = 0 THEN 0 ELSE (p.fret \div 4) * 4 + 1

position(p) ==
    IF p.fret = 0 THEN 0 ELSE ((p.fret - 1) \div 4) * 4 + 1

\* Variant: the strings are numbered from the lowest instead of the highest.
absolute_pitch_reversed(p) ==
    LET string_offset ==
            CASE p.string = 1 -> 0
              [] p.string = 2 -> 5
              [] p.string = 3 -> 10
              [] p.string = 4 -> 15
              [] OTHER -> 0
    IN  string_offset + p.fret

absolute_pitch(p) ==
    LET string_offset ==
            CASE p.string = 1 -> 15
              [] p.string = 2 -> 10
              [] p.string = 3 -> 5
              [] p.string = 4 -> 0
              [] OTHER -> 0
    IN  string_offset + p.fret

\* Variant: a new pattern starts with a sentinel score instead of 0.0.
FingeringPattern_unscored(ps, algorithm) ==
    [positions |-> ps, score |-> -10, algorithm |-> algorithm]

FingeringPattern(ps, algorithm) ==
    [positions |-> ps, score |-> 0, algorithm |-> algorithm]

\* Variant: the string change is halved together with the fret difference.
RECURSIVE total_movement_from_halved(_, _)
total_movement_from_halved(ps, i) ==
    IF i > Len(ps) THEN 0
    ELSE LET prev == ps[i - 1]
             curr == ps[i]
             step == IF prev.string = curr.string
                     THEN Abs(prev.fret - curr.fret)
                     ELSE (1 + Abs(prev.fret - curr.fret)) \div 2
         IN  step + total_movement_from_halved(ps, i + 1)

RECURSIVE total_movement_from(_, _)
total_movement_from(ps, i) ==
    IF i > Len(ps) THEN 0
    ELSE LET prev == ps[i - 1]
             curr == ps[i]
             step == IF prev.string = curr.string
                     THEN Abs(prev.fret - curr.fret)
                     ELSE 1 + (Abs(prev.fret - curr.fret) \div 2)
         IN  step + total_movement_from(ps, i + 1)

total_movement(ps) == total_movement_from(ps, 2)

\* Variant: a move to or from an open string counts as well.
RECURSIVE position_changes_from_any(_, _)
position_changes_from_any(ps, i) ==
    IF i > Len(ps) THEN 0
    ELSE LET prev_pos == position(ps[i - 1])
             curr_pos == position(ps[i])
             step == IF prev_pos # curr_pos THEN 1 ELSE 0
         IN  step + position_changes_from_any(ps, i + 1)

RECURSIVE position_changes_from(_, _)
position_changes_from(ps, i) ==
    IF i > Len(ps) THEN 0
    ELSE LET prev_pos == position(ps[i - 1])
             curr_pos == position(ps[i])
             step == IF prev_pos # curr_pos /\ curr_pos # 0 /\ prev_pos # 0
                     THEN 1 ELSE 0
         IN  step + position_changes_from(ps, i + 1)

position_changes(ps) == position_changes_from(ps, 2)

\* Variant: the fretted positions are counted instead of the open ones.
open_string_count_fretted(ps) ==
    Cardinality({i \in DOMAIN ps : ps[i].fret # 0})

open_string_count(ps) ==
    Cardinality({i \in DOMAIN ps : ps[i].fret = 0})

RECURSIVE string_changes_from(_, _)
string_changes_from(ps, i) ==
    IF i > Len(ps) THEN 0
    ELSE (IF ps[i - 1].string # ps[i].string THEN 1 ELSE 0)
         + string_changes_from(ps, i + 1)

\* Variant: the string of the first position counts as a change.
string_changes_with_first(ps) ==
    (IF Len(ps) > 0 THEN 1 ELSE 0) + string_changes_from(ps, 2)

string_changes(ps) == string_changes_from(ps, 2)

(***************************************************************************)
(* fingering/scoring.rs (weights in tenths)                                *)
(***************************************************************************)
AlgorithmWeights(m, p, o, s) ==
    [movement_weight |-> m, position_change_weight |-> p,
     open_string_weight |-> o, string_change_weight |-> s]

weights_default == AlgorithmWeights(10, 20, -10, 5)

weights_shortest == AlgorithmWeights(100, 10, 0, 5)

weights_position_stable == AlgorithmWeights(10, 100, 0, 5)

\* Variant: the open-string preset rewards an open string no more than balanced.
weights_open_string_weak == AlgorithmWeights(10, 20, -10, 3)

weights_open_string == AlgorithmWeights(10, 20, -50, 3)

weights_string_priority == AlgorithmWeights(5, 10, 0, -10)

weights_balanced == weights_default

\* The weight sets a caller scores with: the five presets, and four that
\* weigh a single metric.
WeightInputs ==
    {"default", "shortest", "position_stable", "open_string", "string_priority",
     "balanced", "movement", "position_change", "open", "string_change"}

WeightsNamed(w) ==
    CASE w = "default" -> weights_default
      [] w = "shortest" -> weights_shortest
      [] w = "position_stable" -> weights_position_stable
      [] w = "open_string" -> weights_open_string
      [] w = "string_priority" -> weights_string_priority
      [] w = "balanced" -> weights_balanced
      [] w = "movement" -> AlgorithmWeights(10, 0, 0, 0)
      [] w = "position_change" -> AlgorithmWeights(0, 10, 0, 0)
      [] w = "open" -> AlgorithmWeights(0, 0, 10, 0)
      [] w = "string_change" -> AlgorithmWeights(0, 0, 0, -7)

\* Variant: the string-change term counts position changes.
calculate_score_miscounted(w, ps) ==
    LET movement_score == total_movement(ps) * w.movement_weight
        position_score == position_changes(ps) * w.position_change_weight
        open_string_score == open_string_count(ps) * w.open_string_weight
        string_change_score == position_changes(ps) * w.string_change_weight
    IN  movement_score + position_score + open_string_score + string_change_score

calculate_score(w, ps) ==
    LET movement_score == total_movement(ps) * w.movement_weight
        position_score == position_changes(ps) * w.position_change_weight
        open_string_score == open_string_count(ps) * w.open_string_weight
        string_change_score == string_changes(ps) * w.string_change_weight
    IN  movement_score + position_score + open_string_score + string_change_score

(***************************************************************************)
(* instrument/fingering/algorithm.rs                                       *)
(***************************************************************************)
\* Variant: the short alias "position" is missing from the match.
from_str_no_alias(s) ==
    CASE s = "shortest" -> [ok |-> TRUE, mode |-> "Shortest"]
      [] s = "position-stable" -> [ok |-> TRUE, mode |-> "PositionStable"]
      [] s \in {"string", "string-priority"} -> [ok |-> TRUE, mode |-> "StringPriority"]
      [] s \in {"open", "open-string"} -> [ok |-> TRUE, mode |-> "OpenString"]
      [] s = "balanced" -> [ok |-> TRUE, mode |-> "Balanced"]
      [] OTHER -> [ok |-> FALSE, mode |-> "Err"]

from_str(s) ==
    CASE s = "shortest" -> [ok |-> TRUE, mode |-> "Shortest"]
      [] s \in {"position", "position-stable"} -> [ok |-> TRUE, mode |-> "PositionStable"]
      [] s \in {"string", "string-priority"} -> [ok |-> TRUE, mode |-> "StringPriority"]
      [] s \in {"open", "open-string"} -> [ok |-> TRUE, mode |-> "OpenString"]
      [] s = "balanced" -> [ok |-> TRUE, mode |-> "Balanced"]
      [] OTHER -> [ok |-> FALSE, mode |-> "Err"]

\* Variant: the G string has no upper fret limit.
generate_all_positions_no_ceiling(pitch) ==
    (IF pitch <= 24 THEN <<FretPosition(4, pitch)>> ELSE <<>>)
    \o (IF pitch >= 5 /\ pitch <= 29 THEN <<FretPosition(3, pitch - 5)>> ELSE <<>>)
    \o (IF pitch >= 10 /\ pitch <= 34 THEN <<FretPosition(2, pitch - 10)>> ELSE <<>>)
    \o (IF pitch >= 15 THEN <<FretPosition(1, pitch - 15)>> ELSE <<>>)

\* Variant: the A string's fret is computed from the wrong open pitch.
generate_all_positions_shifted(pitch) ==
    (IF pitch <= 24 THEN <<FretPosition(4, pitch)>> ELSE <<>>)
    \o (IF pitch >= 5 /\ pitch <= 29 THEN <<FretPosition(3, pitch - 4)>> ELSE <<>>)
    \o (IF pitch >= 10 /\ pitch <= 34 THEN <<FretPosition(2, pitch - 10)>> ELSE <<>>)
    \o (IF pitch >= 15 /\ pitch <= 39 THEN <<FretPosition(1, pitch - 15)>> ELSE <<>>)

generate_all_positions(pitch) ==
    (IF pitch <= 24 THEN <<FretPosition(4, pitch)>> ELSE <<>>)
    \o (IF pitch >= 5 /\ pitch <= 29 THEN <<FretPosition(3, pitch - 5)>> ELSE <<>>)
    \o (IF pitch >= 10 /\ pitch <= 34 THEN <<FretPosition(2, pitch - 10)>> ELSE <<>>)
    \o (IF pitch >= 15 /\ pitch <= 39 THEN <<FretPosition(1, pitch - 15)>> ELSE <<>>)

\* A call either returns a pattern or panics (Option::unwrap on the None that
\* min_by_key gives for an empty candidate list).
Returned(pattern) ==
    [status |-> "ok", positions |-> pattern.positions,
     score |-> pattern.score, algorithm |-> pattern.algorithm, value |-> 0]

Panicked ==
    [status |-> "panic", positions |-> <<>>, score |-> 0, algorithm |-> "",
     value |-> 0]

NoOut ==
    [status |-> "none", positions |-> <<>>, score |-> 0, algorithm |-> "",
     value |-> 0]

\* The loops push one position per pitch; `selected` holds the positions
\* pushed so far, `panicked` that an unwrap hit None on the way.
Running(selected) == [panicked |-> FALSE, selected |-> selected]

Unwound(selected) == [panicked |-> TRUE, selected |-> selected]

\* Variant: a pitch without a candidate is skipped and the positions found
\* for the other pitches are returned.
FinishPartial(run, algorithm, w) ==
    Returned([FingeringPattern(run.selected, algorithm)
                EXCEPT !.score = calculate_score(w, run.selected)])

\* The end of a strategy: the pattern is built and its score overwritten.
Finish(run, algorithm, w) ==
    IF run.panicked THEN Panicked
    ELSE Returned([FingeringPattern(run.selected, algorithm)
                     EXCEPT !.score = calculate_score(w, run.selected)])

shortest_first_key(p) == <<p.fret, p.string>>

\* Variant: a string change costs as much as one fret.
shortest_next_key_undoubled(prev, p) ==
    LET fret_dist == Abs(prev.fret - p.fret)
        string_dist == Abs(prev.string - p.string)
    IN  <<fret_dist + string_dist>>

shortest_next_key(prev, p) ==
    LET fret_dist == Abs(prev.fret - p.fret)
        string_dist == Abs(prev.string - p.string)
    IN  <<fret_dist + string_dist * 2>>

\* Variant: the first position is chosen near the lowest candidate of the
\* last pitch of the sequence.
RECURSIVE shortest_loop_anchored(_, _)
shortest_loop_anchored(ptchs, n) ==
    IF n = 0 THEN Running(<<>>)
    ELSE LET before == shortest_loop_anchored(ptchs, n - 1)
             candidates == generate_all_positions(ptchs[n])
             last == generate_all_positions(ptchs[Len(ptchs)])
         IN  IF before.panicked THEN before
             ELSE IF candidates = <<>> THEN Unwound(before.selected)
             ELSE IF n = 1
             THEN Running(Append(before.selected,
                      min_by_key(candidates,
                          [i \in DOMAIN candidates |->
                              IF last = <<>> THEN shortest_first_key(candidates[i])
                              ELSE <<Abs(candidates[i].fret - last[Len(last)].fret),
                                     candidates[i].string>>])))
             ELSE Running(Append(before.selected,
                      min_by_key(candidates,
                          [i \in DOMAIN candidates |->
                              shortest_next_key(before.selected[n - 1], candidates[i])])))

RECURSIVE shortest_loop(_, _)
shortest_loop(ptchs, n) ==
    IF n = 0 THEN Running(<<>>)
    ELSE LET before == shortest_loop(ptchs, n - 1)
             candidates == generate_all_positions(ptchs[n])
         IN  IF before.panicked THEN before
             ELSE IF candidates = <<>> THEN Unwound(before.selected)
             ELSE IF n = 1
             THEN Running(Append(before.selected,
                      min_by_key(candidates,
                          [i \in DOMAIN candidates |->
                              shortest_first_key(candidates[i])])))
             ELSE Running(Append(before.selected,
                      min_by_key(candidates,
                          [i \in DOMAIN candidates |->
                              shortest_next_key(before.selected[n - 1], candidates[i])])))

calculate_shortest_path(ptchs) ==
    IF ptchs = <<>> THEN Returned(FingeringPattern(<<>>, "shortest"))
    ELSE Finish(shortest_loop(ptchs, Len(ptchs)), "shortest", weights_shortest)

\* Variant: the distance is taken from the nut, whatever the base position.
position_stable_key_from_nut(base_position, p) ==
    LET pos == position(p)
    IN  <<pos, p.fret>>

\* Variant: candidates are compared by the distance alone.
position_stable_key_zone_only(base_position, p) ==
    LET pos == position(p)
        pos_dist == Abs(base_position - pos)
    IN  <<pos_dist>>

\* Variant: the distance is taken from the fret instead of its zone.
position_stable_key_by_fret(base_position, p) ==
    LET pos_dist == Abs(base_position - p.fret)
    IN  <<pos_dist, p.fret>>

position_stable_key(base_position, p) ==
    LET pos == position(p)
        pos_dist == Abs(base_position - pos)
    IN  <<pos_dist, p.fret>>

\* Variant: after the first pitch the base follows the zone of the position
\* chosen before.
RECURSIVE position_stable_loop_following(_, _, _)
position_stable_loop_following(ptchs, base_position, n) ==
    IF n = 0 THEN Running(<<>>)
    ELSE LET before == position_stable_loop_following(ptchs, base_position, n - 1)
             candidates == generate_all_positions(ptchs[n])
             base_now == IF n = 1 \/ before.panicked THEN base_position
                         ELSE position(before.selected[n - 1])
         IN  IF before.panicked THEN before
             ELSE IF candidates = <<>> THEN Unwound(before.selected)
             ELSE Running(Append(before.selected,
                      min_by_key(candidates,
                          [i \in DOMAIN candidates |->
                              position_stable_key(base_now, candidates[i])])))

RECURSIVE position_stable_loop(_, _, _)
position_stable_loop(ptchs, base_position, n) ==
    IF n = 0 THEN Running(<<>>)
    ELSE LET before == position_stable_loop(ptchs, base_position, n - 1)
             candidates == generate_all_positions(ptchs[n])
         IN  IF before.panicked THEN before
             ELSE IF candidates = <<>> THEN Unwound(before.selected)
             ELSE Running(Append(before.selected,
                      min_by_key(candidates,
                          [i \in DOMAIN candidates |->
                              position_stable_key(base_position, candidates[i])])))

calculate_position_stable(ptchs, base_position) ==
    IF ptchs = <<>> THEN Returned(FingeringPattern(<<>>, "position-stable"))
    ELSE Finish(position_stable_loop(ptchs, base_position, Len(ptchs)),
                "position-stable", weights_position_stable)

\* Variant: the two tiers are swapped.
open_string_key_swapped(p) ==
    IF p.fret = 0 THEN <<1, 0>> ELSE <<0, p.fret>>

open_string_key(p) ==
    IF p.fret = 0 THEN <<0, 0>> ELSE <<1, p.fret>>

RECURSIVE open_string_loop(_, _)
open_string_loop(ptchs, n) ==
    IF n = 0 THEN Running(<<>>)
    ELSE LET before == open_string_loop(ptchs, n - 1)
             candidates == generate_all_positions(ptchs[n])
         IN  IF before.panicked THEN before
             ELSE IF candidates = <<>> THEN Unwound(before.selected)
             ELSE Running(Append(before.selected,
                      min_by_key(candidates,
                          [i \in DOMAIN candidates |->
                              open_string_key(candidates[i])])))

calculate_open_string(ptchs) ==
    IF ptchs = <<>> THEN Returned(FingeringPattern(<<>>, "open-string"))
    ELSE Finish(open_string_loop(ptchs, Len(ptchs)), "open-string",
                weights_open_string)

\* Variant: the D string is taken as the centre string.
string_priority_first_key_centre2(p) ==
    LET string_center_dist == Abs(p.string - 2)
    IN  <<string_center_dist, p.fret>>

string_priority_first_key(p) ==
    LET string_center_dist == Abs(p.string - 3)
    IN  <<string_center_dist, p.fret>>

string_priority_next_key(prev, p) ==
    IF p.string # prev.string
    THEN LET string_dist == Abs(prev.string - p.string)
         IN  <<0, string_dist>>
    ELSE LET fret_dist == Abs(prev.fret - p.fret)
         IN  <<fret_dist * 2, 0>>

RECURSIVE string_priority_loop(_, _)
string_priority_loop(ptchs, n) ==
    IF n = 0 THEN Running(<<>>)
    ELSE LET before == string_priority_loop(ptchs, n - 1)
             candidates == generate_all_positions(ptchs[n])
         IN  IF before.panicked THEN before
             ELSE IF candidates = <<>> THEN Unwound(before.selected)
             ELSE IF n = 1
             THEN Running(Append(before.selected,
                      min_by_key(candidates,
                          [i \in DOMAIN candidates |->
                              string_priority_first_key(candidates[i])])))
             ELSE Running(Append(before.selected,
                      min_by_key(candidates,
                          [i \in DOMAIN candidates |->
                              string_priority_next_key(before.selected[n - 1], candidates[i])])))

calculate_string_priority(ptchs) ==
    IF ptchs = <<>> THEN Returned(FingeringPattern(<<>>, "string-priority"))
    ELSE Finish(string_priority_loop(ptchs, Len(ptchs)), "string-priority",
                weights_string_priority)

\* Variant: the first pattern tried is returned without comparing scores.
balanced_pick_first(tried) == tried[1]

\* Variant: of equal scores the pattern tried last is kept.
balanced_pick_last(tried) ==
    LET keys == [i \in DOMAIN tried |->
                    calculate_score(weights_balanced, tried[i].positions)]
        least == {i \in DOMAIN tried : \A j \in DOMAIN tried : keys[i] <= keys[j]}
    IN  tried[CHOOSE i \in least : \A j \in least : i >= j]

\* min_by over vec![shortest, position, open]; partial_cmp is never None
\* because no score is NaN.
balanced_pick(tried) ==
    tried[FirstMinIndex([i \in DOMAIN tried |->
              <<calculate_score(weights_balanced, tried[i].positions)>>])]

calculate_balanced(ptchs) ==
    IF ptchs = <<>> THEN Returned(FingeringPattern(<<>>, "balanced"))
    ELSE LET shortest == calculate_shortest_path(ptchs)
             pos == calculate_position_stable(ptchs, 5)
             open == calculate_open_string(ptchs)
         IN  IF shortest.status = "panic" \/ pos.status = "panic"
                \/ open.status = "panic"
             THEN Panicked
             ELSE LET p == balanced_pick(<<shortest, pos, open>>)
                  IN  [p EXCEPT !.algorithm = "balanced",
                                !.score = calculate_score(weights_balanced, p.positions)]

\* mode.parse().unwrap_or(FingeringMode::Balanced), then the match.  The
\* JsValue handed back carries the pattern's positions, score and algorithm.
calculate_fingering(ptchs, mode) ==
    LET parsed == from_str(mode)
        fingering_mode == IF parsed.ok THEN parsed.mode ELSE "Balanced"
    IN  CASE fingering_mode = "Shortest" -> calculate_shortest_path(ptchs)
          [] fingering_mode = "PositionStable" -> calculate_position_stable(ptchs, 5)
          [] fingering_mode = "StringPriority" -> calculate_string_priority(ptchs)
          [] fingering_mode = "OpenString" -> calculate_open_string(ptchs)
          [] fingering_mode = "Balanced" -> calculate_balanced(ptchs)

(***************************************************************************)
(* The callers.  A caller builds a pitch sequence and hands it to the      *)
(* entry point or to a strategy (Spec); calls a unit function on one       *)
(* argument (SpecUnit); or builds a pattern by hand and measures it        *)
(* (SpecPattern).  Everything is synchronous and single-threaded: one call *)
(* is made at a time.  `call` records the operation and its arguments,     *)
(* `out` what it gave back.                                                *)
(***************************************************************************)
NoPos == FretPosition(0, 0)

Called(fn, mode, n, pos) == [fn |-> fn, mode |-> mode, n |-> n, pos |-> pos]

NoCall == Called("none", "", 0, NoPos)

\* What a unit function gives back: a number, or a list of positions.
Value(v) ==
    [status |-> "ok", positions |-> <<>>, score |-> 0, algorithm |-> "",
     value |-> v]

Listed(ps) ==
    [status |-> "ok", positions |-> ps, score |-> 0, algorithm |-> "",
     value |-> 0]

Init ==
    /\ pitches = <<>>
    /\ positions = <<>>
    /\ call = NoCall
    /\ out = NoOut

\* The caller takes the result; the next call can be made.
Return ==
    /\ call # NoCall
    /\ call' = NoCall
    /\ out' = NoOut
    /\ UNCHANGED <<pitches, positions>>

\* A sequence is drawn from PitchInputs; a one-pitch sequence holds any u8.
PushPitch(p) ==
    /\ call = NoCall
    /\ Len(pitches) < MaxLen
    /\ \/ pitches = <<>>
       \/ /\ p \in PitchInputs
          /\ \A i \in DOMAIN pitches : pitches[i] \in PitchInputs
    /\ pitches' = Append(pitches, p)
    /\ call' = NoCall
    /\ out' = NoOut
    /\ UNCHANGED positions

CallFingering(m) ==
    /\ call = NoCall
    /\ call' = Called("calculate_fingering", m, 0, NoPos)
    /\ out' = calculate_fingering(pitches, m)
    /\ UNCHANGED <<pitches, positions>>

CallShortestPath ==
    /\ call = NoCall
    /\ call' = Called("calculate_shortest_path", "", 0, NoPos)
    /\ out' = calculate_shortest_path(pitches)
    /\ UNCHANGED <<pitches, positions>>

\* A sequence is tried with the bases of BaseInputs; a sequence of at most
\* one pitch with every base up to the last fret.
CallPositionStable(b) ==
    /\ call = NoCall
    /\ b \in BaseInputs \/ Len(pitches) <= 1
    /\ call' = Called("calculate_position_stable", "", b, NoPos)
    /\ out' = calculate_position_stable(pitches, b)
    /\ UNCHANGED <<pitches, positions>>

CallOpenString ==
    /\ call = NoCall
    /\ call' = Called("calculate_open_string", "", 0, NoPos)
    /\ out' = calculate_open_string(pitches)
    /\ UNCHANGED <<pitches, positions>>

CallStringPriority ==
    /\ call = NoCall
    /\ call' = Called("calculate_string_priority", "", 0, NoPos)
    /\ out' = calculate_string_priority(pitches)
    /\ UNCHANGED <<pitches, positions>>

CallBalanced ==
    /\ call = NoCall
    /\ call' = Called("calculate_balanced", "", 0, NoPos)
    /\ out' = calculate_balanced(pitches)
    /\ UNCHANGED <<pitches, positions>>

Next ==
    \/ \E p \in 0..U8Max : PushPitch(p)
    \/ \E m \in ModeInputs : CallFingering(m)
    \/ CallShortestPath
    \/ \E b \in 0..MaxFret : CallPositionStable(b)
    \/ CallOpenString
    \/ CallStringPriority
    \/ CallBalanced
    \/ Return

Spec == Init /\ [][Next]_vars

\* The two strategies that choose the position of each pitch on its own,
\* called directly and through the entry point (SpecIndependent).
IndependentModes == {"position", "position-stable", "open", "open-string"}

NextIndependent ==
    \/ \E p \in 0..U8Max : PushPitch(p)
    \/ \E m \in IndependentModes : CallFingering(m)
    \/ \E b \in 0..MaxFret : CallPositionStable(b)
    \/ CallOpenString
    \/ Return

SpecIndependent == Init /\ [][NextIndependent]_vars

\* Unit functions on one argument.
CallGenerateAllPositions(p) ==
    /\ call = NoCall
    /\ call' = Called("generate_all_positions", "", p, NoPos)
    /\ out' = Listed(generate_all_positions(p))
    /\ UNCHANGED <<pitches, positions>>

CallAbsolutePitch(s, f) ==
    /\ call = NoCall
    /\ call' = Called("absolute_pitch", "", 0, FretPosition(s, f))
    /\ out' = Value(absolute_pitch(FretPosition(s, f)))
    /\ UNCHANGED <<pitches, positions>>

CallPosition(s, f) ==
    /\ call = NoCall
    /\ call' = Called("position", "", 0, FretPosition(s, f))
    /\ out' = Value(position(FretPosition(s, f)))
    /\ UNCHANGED <<pitches, positions>>

NextUnit ==
    \/ \E p \in 0..U8Max : CallGenerateAllPositions(p)
    \/ \E s \in 0..(NumStrings + 1), f \in 0..MaxFret : CallAbsolutePitch(s, f)
    \/ \E s \in 1..NumStrings, f \in 0..MaxFret : CallPosition(s, f)
    \/ Return

SpecUnit == Init /\ [][NextUnit]_vars

\* A pattern built by hand and scored.
PushPosition(s, f) ==
    /\ call = NoCall
    /\ Len(positions) < MaxPatLen
    /\ positions' = Append(positions, FretPosition(s, f))
    /\ call' = NoCall
    /\ out' = NoOut
    /\ UNCHANGED pitches

CallCalculateScore(w) ==
    /\ call = NoCall
    /\ call' = Called("calculate_score", w, 0, NoPos)
    /\ out' = Value(calculate_score(WeightsNamed(w), positions))
    /\ UNCHANGED <<pitches, positions>>

CallTotalMovement ==
    /\ call = NoCall
    /\ call' = Called("total_movement", "", 0, NoPos)
    /\ out' = Value(total_movement(positions))
    /\ UNCHANGED <<pitches, positions>>

CallPositionChanges ==
    /\ call = NoCall
    /\ call' = Called("position_changes", "", 0, NoPos)
    /\ out' = Value(position_changes(positions))
    /\ UNCHANGED <<pitches, positions>>

CallOpenStringCount ==
    /\ call = NoCall
    /\ call' = Called("open_string_count", "", 0, NoPos)
    /\ out' = Value(open_string_count(positions))
    /\ UNCHANGED <<pitches, positions>>

CallStringChanges ==
    /\ call = NoCall
    /\ call' = Called("string_changes", "", 0, NoPos)
    /\ out' = Value(string_changes(positions))
    /\ UNCHANGED <<pitches, positions>>

NextPattern ==
    \/ \E s \in StringInputs, f \in FretInputs : PushPosition(s, f)
    \/ \E w \in WeightInputs : CallCalculateScore(w)
    \/ CallTotalMovement
    \/ CallPositionChanges
    \/ CallOpenStringCount
    \/ CallStringChanges
    \/ Return

SpecPattern == Init /\ [][NextPattern]_vars

(***************************************************************************)
(* tuning.rs and fretboard.rs: the tuning presets and the positions of a   *)
(* chord on a tuning.  Accidentals are written in ASCII ("C#/Db", "b3").   *)
(***************************************************************************)
StringDef(open_note, offset) == [open_note |-> open_note, offset |-> offset]

Tuning(name, strings, max_fret) ==
    [name |-> name, strings |-> strings, max_fret |-> max_fret]

\* Variant: the neck of the four-string preset ends at fret 22.
bass_4_short ==
    Tuning("bass_4",
           <<StringDef("E", 0), StringDef("A", 5), StringDef("D", 10),
             StringDef("G", 15)>>,
           22)

bass_4 ==
    Tuning("bass_4",
           <<StringDef("E", 0), StringDef("A", 5), StringDef("D", 10),
             StringDef("G", 15)>>,
           24)

\* Variant: the low B string is added after the G string.
bass_5_low_last ==
    Tuning("bass_5",
           <<StringDef("E", 0), StringDef("A", 5), StringDef("D", 10),
             StringDef("G", 15), StringDef("B", -5)>>,
           24)

bass_5 ==
    Tuning("bass_5",
           <<StringDef("B", -5), StringDef("E", 0), StringDef("A", 5),
             StringDef("D", 10), StringDef("G", 15)>>,
           24)

bass_6 ==
    Tuning("bass_6",
           <<StringDef("B", -5), StringDef("E", 0), StringDef("A", 5),
             StringDef("D", 10), StringDef("G", 15), StringDef("C", 20)>>,
           24)

bass_drop_d ==
    Tuning("bass_drop_d",
           <<StringDef("D", -2), StringDef("A", 5), StringDef("D", 10),
             StringDef("G", 15)>>,
           24)

\* Option<T>.
Some(v) == [some |-> TRUE, value |-> v]

None == [some |-> FALSE, value |-> "None"]

unwrap_or(opt, default) == IF opt.some THEN opt.value ELSE default

\* Variant: the name is matched by its prefix, so "bass_4_fretless" and
\* "bass_50" find a preset.
from_name_by_prefix(name) ==
    CASE name \in {"bass_4", "bass_4_fretless"} -> Some(bass_4)
      [] name \in {"bass_5", "bass_50"} -> Some(bass_5)
      [] name = "bass_6" -> Some(bass_6)
      [] name = "bass_drop_d" -> Some(bass_drop_d)
      [] OTHER -> None

from_name(name) ==
    CASE name = "bass_4" -> Some(bass_4)
      [] name = "bass_5" -> Some(bass_5)
      [] name = "bass_6" -> Some(bass_6)
      [] name = "bass_drop_d" -> Some(bass_drop_d)
      [] OTHER -> None

\* core/pitch.rs
CHROMATIC_BOTH ==
    <<"C", "C#/Db", "D", "D#/Eb", "E", "F", "F#/Gb", "G", "G#/Ab", "A",
      "A#/Bb", "B">>

note_to_semitone(note) ==
    CASE note \in {"C", "B#"} -> Some(0)
      [] note \in {"C#", "Db"} -> Some(1)
      [] note = "D" -> Some(2)
      [] note \in {"D#", "Eb"} -> Some(3)
      [] note \in {"E", "Fb"} -> Some(4)
      [] note \in {"F", "E#"} -> Some(5)
      [] note \in {"F#", "Gb"} -> Some(6)
      [] note = "G" -> Some(7)
      [] note \in {"G#", "Ab"} -> Some(8)
      [] note = "A" -> Some(9)
      [] note \in {"A#", "Bb"} -> Some(10)
      [] note \in {"B", "Cb"} -> Some(11)
      [] OTHER -> None

pitch_map_for_root(root) ==
    LET root_semitone == unwrap_or(note_to_semitone(root), 0)
    IN  [i \in 1..12 |-> CHROMATIC_BOTH[((root_semitone + (i - 1)) % 12) + 1]]

fret_offset(root) ==
    LET root_semi == unwrap_or(note_to_semitone(root), 0)
        e_semi == 4
    IN  (root_semi - e_semi + 12) % 12

\* pitch_text.split('/'): the names an entry of the pitch map stands for.
split_names(pitch_text) ==
    CASE pitch_text = "C#/Db" -> {"C#", "Db"}
      [] pitch_text = "D#/Eb" -> {"D#", "Eb"}
      [] pitch_text = "F#/Gb" -> {"F#", "Gb"}
      [] pitch_text = "G#/Ab" -> {"G#", "Ab"}
      [] pitch_text = "A#/Bb" -> {"A#", "Bb"}
      [] OTHER -> {pitch_text}

\* The entries of the pitch map hold no digit, so parse_pitch gives None and
\* the replace removes nothing: the name comes back as it is.
strip_octave(pitch) == pitch

\* pitch_name.starts_with('C') || pitch_name.starts_with('D')
starts_with_C_or_D(pitch_name) ==
    pitch_name \in {"C", "C#/Db", "D", "D#/Eb"}

\* core/chord_type.rs
ChordTone(interval, semitones) == [interval |-> interval, semitones |-> semitones]

\* The chords tried.  Of these, get_root_note finds a root outside "C" for
\* "Am", "G7", "E5" and "D"; only "E5" ends in '5' and only "C8" holds an '8'.
ChordInputs == {"C", "Am", "G7", "D", "E5", "C8", "ALL_KEYS", "WHITE_KEYS"}

get_root_note(chord) ==
    CASE chord \in {"C", "C8"} -> "C"
      [] chord \in {"Am", "ALL_KEYS"} -> "A"
      [] chord = "G7" -> "G"
      [] chord = "D" -> "D"
      [] chord = "E5" -> "E"
      [] OTHER -> ""

\* (root, chord type): the rest of the name after the root; none of the
\* chords tried has a type that is rewritten.
parse_chord_type(chord) ==
    CASE chord = "C" -> <<"C", "">>
      [] chord = "D" -> <<"D", "">>
      [] chord = "Am" -> <<"A", "m">>
      [] chord = "G7" -> <<"G", "7">>
      [] chord = "E5" -> <<"E", "5">>
      [] chord = "C8" -> <<"C", "8">>
      [] OTHER -> <<get_root_note(chord), chord>>

get_chord_tones(chord_type) ==
    CASE chord_type \in {"", "maj"} ->
             <<ChordTone("1", 0), ChordTone("3", 4), ChordTone("5", 7)>>
      [] chord_type = "m" ->
             <<ChordTone("1", 0), ChordTone("b3", 3), ChordTone("5", 7)>>
      [] chord_type = "7" ->
             <<ChordTone("1", 0), ChordTone("3", 4), ChordTone("5", 7),
               ChordTone("b7", 10)>>
      [] OTHER ->
             <<ChordTone("1", 0), ChordTone("3", 4), ChordTone("5", 7)>>

chromatic_chord_tones ==
    <<ChordTone("1", 0), ChordTone("b2", 1), ChordTone("2", 2),
      ChordTone("b3", 3), ChordTone("3", 4), ChordTone("4", 5),
      ChordTone("b5", 6), ChordTone("5", 7), ChordTone("#5", 8),
      ChordTone("6", 9), ChordTone("b7", 10), ChordTone("7", 11)>>

diatonic_chord_tones ==
    <<ChordTone("1", 0), ChordTone("2", 2), ChordTone("3", 4),
      ChordTone("4", 5), ChordTone("5", 7), ChordTone("6", 9),
      ChordTone("7", 11)>>

\* fretboard.rs
Position(string, fret, pitch, interval) ==
    [string |-> string, fret |-> fret, pitch |-> pitch, interval |-> interval]

FretWithPitch(interval, fret, pitch) ==
    [interval |-> interval, fret |-> fret, pitch |-> pitch]

\* format!("{}{}", pitch_name, octave)
PitchLabel(pitch_name, octave) == [name |-> pitch_name, octave |-> octave]

SetMin(S) == CHOOSE x \in S : \A y \in S : x <= y

SetMax(S) == CHOOSE x \in S : \A y \in S : x >= y

get_pitches(root, tones, offset) ==
    LET pitch_map == pitch_map_for_root(root)
        found == {i \in 1..12 : root \in split_names(pitch_map[i])}
        root_index == IF found = {} THEN 0 ELSE SetMin(found) - 1
    IN  [k \in 1..Len(tones) |->
            LET pitch_index == (root_index + tones[k].semitones) % 12
            IN  FretWithPitch(tones[k].interval, tones[k].semitones + offset,
                              pitch_map[pitch_index + 1])]

\* Variant: strings are numbered from the lowest-pitched string.
RECURSIVE convert_one_from_low(_, _, _)
convert_one_from_low(fwp, tuning, i) ==
    IF i > Len(tuning.strings) THEN <<>>
    ELSE LET string_def == tuning.strings[i]
             min_fret == string_def.offset
             max_fret == string_def.offset + tuning.max_fret
         IN  (IF fwp.fret >= min_fret /\ fwp.fret <= max_fret
              THEN <<Position(i, fwp.fret - string_def.offset,
                              fwp.pitch, fwp.interval)>>
              ELSE <<>>)
             \o convert_one_from_low(fwp, tuning, i + 1)

\* The inner loop of convert_to_positions: the strings from index i on (the
\* source's index is i - 1).
RECURSIVE convert_one(_, _, _)
convert_one(fwp, tuning, i) ==
    IF i > Len(tuning.strings) THEN <<>>
    ELSE LET num_strings == Len(tuning.strings)
             string_def == tuning.strings[i]
             string_num == num_strings - (i - 1)
             min_fret == string_def.offset
             max_fret == string_def.offset + tuning.max_fret
         IN  (IF fwp.fret >= min_fret /\ fwp.fret <= max_fret
              THEN <<Position(string_num, fwp.fret - string_def.offset,
                              fwp.pitch, fwp.interval)>>
              ELSE <<>>)
             \o convert_one(fwp, tuning, i + 1)

RECURSIVE convert_from(_, _, _)
convert_from(frets, tuning, k) ==
    IF k > Len(frets) THEN <<>>
    ELSE convert_one(frets[k], tuning, 1) \o convert_from(frets, tuning, k + 1)

convert_to_positions(frets, tuning) == convert_from(frets, tuning, 1)

\* The branches of chord_positions that settle the tones and the root.
chord_tones_and_root(chord) ==
    LET is_all_keys == chord = "ALL_KEYS"
        is_white_keys == chord = "WHITE_KEYS"
        is_power_chord == chord = "E5"
        is_octave_unison == chord = "C8"
    IN  IF is_all_keys THEN <<chromatic_chord_tones, "C">>
        ELSE IF is_white_keys THEN <<diatonic_chord_tones, "C">>
        ELSE IF is_power_chord
        THEN <<(<<ChordTone("1", 0), ChordTone("5", 7)>>), get_root_note(chord)>>
        ELSE IF is_octave_unison
        THEN <<(<<ChordTone("1", 0), ChordTone("8", 12)>>), get_root_note(chord)>>
        ELSE LET parsed == parse_chord_type(chord)
             IN  <<get_chord_tones(parsed[2]), parsed[1]>>

\* The flat_map of chord_positions from tone k on; current_octave is the
\* captured counter, set to 1 by the first tone named C.. or D.. and kept.
RECURSIVE octave_frets_from(_, _, _, _)
octave_frets_from(frets_with_pitch, tuning, k, current_octave) ==
    IF k > Len(frets_with_pitch) THEN <<>>
    ELSE LET fwp == frets_with_pitch[k]
             pitch_name == strip_octave(fwp.pitch)
             octave_now == IF starts_with_C_or_D(pitch_name) THEN 1
                           ELSE current_octave
             offsets == {tuning.strings[i].offset : i \in DOMAIN tuning.strings}
             max_absolute_fret ==
                 IF offsets = {} THEN 39
                 ELSE SetMax({o + tuning.max_fret : o \in offsets})
             min_fret == IF offsets = {} THEN 0 ELSE SetMin(offsets)
             mapped == [oct \in 1..4 |->
                           FretWithPitch(fwp.interval, fwp.fret + (oct - 1) * 12,
                                         PitchLabel(pitch_name, octave_now + (oct - 1)))]
             kept == SelectSeq(mapped,
                         LAMBDA f : f.fret >= min_fret /\ f.fret <= max_absolute_fret)
         IN  kept \o octave_frets_from(frets_with_pitch, tuning, k + 1, octave_now)

chord_positions(chord, tuning) ==
    LET tr == chord_tones_and_root(chord)
        chord_tones == tr[1]
        use_root == tr[2]
        offset == fret_offset(use_root)
        frets_with_pitch == get_pitches(use_root, chord_tones, offset - 12)
        octave_frets == octave_frets_from(frets_with_pitch, tuning, 1, 0)
    IN  convert_to_positions(octave_frets, tuning)

get_chord_positions_with_tuning(chord, tuning_name) ==
    LET tuning == unwrap_or(from_name(tuning_name), bass_4)
    IN  chord_positions(chord, tuning)

get_tuning_info(tuning_name) ==
    unwrap_or(from_name(tuning_name), bass_4)

(***************************************************************************)
(* The tuning entry points and the position generator of fretboard.rs,     *)
(* called on one argument each (SpecTuning).                               *)
(***************************************************************************)
PresetNames == {"bass_4", "bass_5", "bass_6", "bass_drop_d"}

TuningNameInputs ==
    PresetNames \cup {"", "unknown", "Bass_4", "bass_4 ", "bass4", "bass_7",
                      "bass_4_fretless", "bass_50", "drop_d"}

\* Absolute pitches from below the lowest open string of every preset up to
\* the largest pitch the hardcoded generator can be given.
FretArgInputs == (0 - 8)..U8Max

\* A call that takes a chord name beside a tuning name.
CalledChord(fn, chord, tuning_name) ==
    [fn |-> fn, mode |-> tuning_name, n |-> 0, pos |-> NoPos, chord |-> chord]

CallFromName(name) ==
    /\ call = NoCall
    /\ call' = Called("from_name", name, 0, NoPos)
    /\ out' = Value(from_name(name))
    /\ UNCHANGED <<pitches, positions>>

CallGetTuningInfo(tuning_name) ==
    /\ call = NoCall
    /\ call' = Called("get_tuning_info", tuning_name, 0, NoPos)
    /\ out' = Value(get_tuning_info(tuning_name))
    /\ UNCHANGED <<pitches, positions>>

CallGetChordPositionsWithTuning(chord, tuning_name) ==
    /\ call = NoCall
    /\ call' = CalledChord("get_chord_positions_with_tuning", chord, tuning_name)
    /\ out' = Listed(get_chord_positions_with_tuning(chord, tuning_name))
    /\ UNCHANGED <<pitches, positions>>

\* convert_to_positions on the one absolute pitch `fret` under a preset.
CallConvertToPositions(tuning_name, fret) ==
    /\ call = NoCall
    /\ call' = Called("convert_to_positions", tuning_name, fret, NoPos)
    /\ out' = Listed(convert_to_positions(
                  <<FretWithPitch("1", fret, PitchLabel("E", 0))>>,
                  from_name(tuning_name).value))
    /\ UNCHANGED <<pitches, positions>>

NextTuning ==
    \/ \E name \in TuningNameInputs : CallFromName(name)
    \/ \E name \in TuningNameInputs : CallGetTuningInfo(name)
    \/ \E chord \in ChordInputs, name \in TuningNameInputs :
           CallGetChordPositionsWithTuning(chord, name)
    \/ \E name \in PresetNames, fret \in FretArgInputs :
           CallConvertToPositions(name, fret)
    \/ Return

SpecTuning == Init /\ [][NextTuning]_vars

(***************************************************************************)
(* One selection of a strategy's loop, on any pitch with candidates and    *)
(* any previous position or base position (SpecStep).  `order` is the      *)
(* order in which the candidates reach min_by_key.                         *)
(***************************************************************************)
shortest_first_step(candidates) ==
    min_by_key(candidates,
        [i \in DOMAIN candidates |-> shortest_first_key(candidates[i])])

shortest_next_step(prev, candidates) ==
    min_by_key(candidates,
        [i \in DOMAIN candidates |-> shortest_next_key(prev, candidates[i])])

position_stable_step(base_position, candidates) ==
    min_by_key(candidates,
        [i \in DOMAIN candidates |-> position_stable_key(base_position, candidates[i])])

open_string_step(candidates) ==
    min_by_key(candidates,
        [i \in DOMAIN candidates |-> open_string_key(candidates[i])])

\* A selection step and its arguments.
CalledStep(fn, pitch, prev, base_position) ==
    [fn |-> fn, mode |-> "", n |-> pitch, pos |-> prev, base |-> base_position]

SelectShortestFirst(pitch) ==
    /\ call = NoCall
    /\ call' = CalledStep("shortest_first_step", pitch, NoPos, 0)
    /\ out' = Value(shortest_first_step(generate_all_positions(pitch)))
    /\ UNCHANGED <<pitches, positions>>

SelectShortestNext(prev, pitch) ==
    /\ call = NoCall
    /\ call' = CalledStep("shortest_next_step", pitch, prev, 0)
    /\ out' = Value(shortest_next_step(prev, generate_all_positions(pitch)))
    /\ UNCHANGED <<pitches, positions>>

SelectPositionStable(base_position, pitch) ==
    /\ call = NoCall
    /\ call' = CalledStep("position_stable_step", pitch, NoPos, base_position)
    /\ out' = Value(position_stable_step(base_position, generate_all_positions(pitch)))
    /\ UNCHANGED <<pitches, positions>>

SelectOpenString(pitch) ==
    /\ call = NoCall
    /\ call' = CalledStep("open_string_step", pitch, NoPos, 0)
    /\ out' = Value(open_string_step(generate_all_positions(pitch)))
    /\ UNCHANGED <<pitches, positions>>

\* The pitches that have a candidate: on any other the unwrap panics.
PlayablePitches == {p \in 0..U8Max : generate_all_positions(p) # <<>>}

NextStep ==
    \/ \E pitch \in PlayablePitches : SelectShortestFirst(pitch)
    \/ \E s \in 1..NumStrings, f \in 0..MaxFret, pitch \in PlayablePitches :
           SelectShortestNext(FretPosition(s, f), pitch)
    \/ \E b \in 0..MaxFret, pitch \in PlayablePitches : SelectPositionStable(b, pitch)
    \/ \E pitch \in PlayablePitches : SelectOpenString(pitch)
    \/ Return

SpecStep == Init /\ [][NextStep]_vars

(***************************************************************************)
(* The properties.  What a property says about the layout, the metrics and *)
(* the score is written out here from its statement, independently of the  *)
(* definitions above.                                                      *)
(***************************************************************************)
Range(seq) == {seq[i] : i \in DOMAIN seq}

InRange(ptchs) == \A i \in DOMAIN ptchs : ptchs[i] \in 0..39

StringOffset(s) ==
    CASE s = 1 -> 15 [] s = 2 -> 10 [] s = 3 -> 5 [] s = 4 -> 0

\* Every (string, fret) of the 4-string layout that sounds pitch p.
Candidates(p) ==
    {c \in [string : 1..4, fret : 0..24] : StringOffset(c.string) + c.fret = p}

Zone(f) == IF f = 0 THEN 0 ELSE ((f - 1) \div 4) * 4 + 1

RECURSIVE SumOver(_, _)
SumOver(f, S) ==
    IF S = {} THEN 0
    ELSE LET x == CHOOSE y \in S : TRUE IN f[x] + SumOver(f, S \ {x})

Pairs(ps) == 2..Len(ps)

TotalMovement(ps) ==
    SumOver([i \in Pairs(ps) |->
                IF ps[i].string = ps[i - 1].string
                THEN Abs(ps[i].fret - ps[i - 1].fret)
                ELSE 1 + (Abs(ps[i].fret - ps[i - 1].fret) \div 2)],
            Pairs(ps))

PositionChanges(ps) ==
    Cardinality({i \in Pairs(ps) :
        /\ Zone(ps[i].fret) # Zone(ps[i - 1].fret)
        /\ Zone(ps[i].fret) # 0
        /\ Zone(ps[i - 1].fret) # 0})

OpenStringCount(ps) == Cardinality({i \in DOMAIN ps : ps[i].fret = 0})

StringChanges(ps) ==
    Cardinality({i \in Pairs(ps) : ps[i].string # ps[i - 1].string})

\* The score formula, in tenths, for weights given in tenths.
Score(ps, mw, pw, ow, sw) ==
    TotalMovement(ps) * mw + PositionChanges(ps) * pw
    + OpenStringCount(ps) * ow + StringChanges(ps) * sw

ScoreBalanced(ps) == Score(ps, 10, 20, -10, 5)

StrategyCalls ==
    {"calculate_shortest_path", "calculate_position_stable",
     "calculate_open_string", "calculate_string_priority", "calculate_balanced"}

AnyCall == StrategyCalls \cup {"calculate_fingering"}

\* C1: in every mode, calculate_fingering on pitches that all lie in 0..39
\* returns one position per pitch, in input order, and position i is on a
\* string 1..4 at a fret 0..24 with StringOffset(string) + fret = pitches[i].
C1_OnePositionPerPitch ==
    (call.fn = "calculate_fingering" /\ InRange(pitches)) =>
        /\ out.status = "ok"
        /\ Len(out.positions) = Len(pitches)
        /\ \A i \in DOMAIN pitches :
              /\ out.positions[i].string \in 1..4
              /\ out.positions[i].fret \in 0..24
              /\ StringOffset(out.positions[i].string) + out.positions[i].fret
                 = pitches[i]

C1_Witness ==
    /\ call.fn = "calculate_fingering"
    /\ call.mode = "string-priority"
    /\ pitches = <<8, 15, 39>>
    /\ out.status = "ok"
    /\ Len(out.positions) = 3
    /\ out.positions[1].string # out.positions[2].string

\* C2: when some pitch of the sequence has no candidate (a pitch above 39),
\* every strategy and the entry point in every mode fail: the call panics
\* out to the caller (the NoCandidatePosition outcome) and returns no
\* pattern, neither an empty one nor one that skips the pitch.
C2_NoCandidateFails ==
    (call.fn \in AnyCall /\ \E i \in DOMAIN pitches : pitches[i] > 39) =>
        /\ out.status = "panic"
        /\ out.positions = <<>>

C2_Witness ==
    /\ call.fn = "calculate_fingering"
    /\ call.mode = "open"
    /\ pitches = <<5, 40, 7>>
    /\ out.status = "panic"

\* C3: on a non-empty in-range sequence calculate_balanced returns the
\* positions of one of the patterns of shortest, position-stable (base 5) and
\* open-string, and its score is the least of the three patterns' scores
\* under the balanced weights (1.0, 2.0, -1.0, 0.5).
C3_BalancedOptimal ==
    (call.fn = "calculate_balanced" /\ pitches # <<>> /\ InRange(pitches)) =>
        LET tried == {calculate_shortest_path(pitches).positions,
                      calculate_position_stable(pitches, 5).positions,
                      calculate_open_string(pitches).positions}
        IN  /\ out.status = "ok"
            /\ out.positions \in tried
            /\ \A ps \in tried : out.score <= ScoreBalanced(ps)
            /\ out.score = ScoreBalanced(out.positions)

\* The three patterns score differently and the first one tried is not the best.
C3_Witness ==
    /\ call.fn = "calculate_balanced"
    /\ InRange(pitches)
    /\ Len(pitches) = 3
    /\ out.status = "ok"
    /\ out.positions # calculate_shortest_path(pitches).positions
    /\ out.score < ScoreBalanced(calculate_shortest_path(pitches).positions)

\* C4: the mode string selects shortest for "shortest", position-stable with
\* base 5 for "position" and "position-stable", string-priority for "string"
\* and "string-priority", open-string for "open" and "open-string", balanced
\* for "balanced"; any other string fails to parse and the entry point gives
\* exactly what it gives for "balanced".
C4_ModeDispatch ==
    (call.fn = "calculate_fingering") =>
        CASE call.mode = "shortest" ->
                 from_str(call.mode).ok /\ out = calculate_shortest_path(pitches)
          [] call.mode \in {"position", "position-stable"} ->
                 from_str(call.mode).ok /\ out = calculate_position_stable(pitches, 5)
          [] call.mode \in {"string", "string-priority"} ->
                 from_str(call.mode).ok /\ out = calculate_string_priority(pitches)
          [] call.mode \in {"open", "open-string"} ->
                 from_str(call.mode).ok /\ out = calculate_open_string(pitches)
          [] call.mode = "balanced" ->
                 from_str(call.mode).ok /\ out = calculate_balanced(pitches)
          [] OTHER ->
                 /\ ~from_str(call.mode).ok
                 /\ out = calculate_fingering(pitches, "balanced")
                 /\ out = calculate_balanced(pitches)

C4_Witness ==
    /\ call.fn = "calculate_fingering"
    /\ call.mode = "xyz"
    /\ pitches = <<5, 7, 5>>
    /\ out.status = "ok"
    /\ out.algorithm = "balanced"
    /\ Len(out.positions) = 3

\* C5: on the empty pitch sequence every strategy and the entry point in
\* every mode return a pattern with no positions and score 0, without failing.
C5_EmptyInput ==
    (call.fn \in AnyCall /\ pitches = <<>>) =>
        /\ out.status = "ok"
        /\ out.positions = <<>>
        /\ out.score = 0

C5_Witness ==
    /\ call.fn = "calculate_fingering"
    /\ call.mode = "balanced"
    /\ pitches = <<>>
    /\ out.status = "ok"
    /\ out.positions = <<>>

\* C6: for every pitch p in 0..255 generate_all_positions(p) holds a
\* position on string s iff StringOffset(s) <= p <= StringOffset(s) + 24, with
\* fret p - StringOffset(s), and at most one position per string; pitch 0
\* gives exactly (4,0), pitch 5 exactly (4,5) and (3,0), pitch 8 two
\* positions, every pitch in 0..39 at least one and every pitch above 39 none.
C6_GeneratorRanges ==
    (call.fn = "generate_all_positions") =>
        LET p == call.n
            ps == out.positions
        IN  /\ \A i \in DOMAIN ps : ps[i].string \in 1..4
            /\ \A s \in 1..4 :
                  (\E i \in DOMAIN ps : ps[i].string = s)
                  <=> (StringOffset(s) <= p /\ p <= StringOffset(s) + 24)
            /\ \A i \in DOMAIN ps : ps[i].fret = p - StringOffset(ps[i].string)
            /\ \A i, j \in DOMAIN ps : ps[i].string = ps[j].string => i = j
            /\ p = 0 => (Len(ps) = 1 /\ Range(ps) = {[string |-> 4, fret |-> 0]})
            /\ p = 5 => (Len(ps) = 2 /\ Range(ps) = {[string |-> 4, fret |-> 5],
                                                      [string |-> 3, fret |-> 0]})
            /\ p = 8 => Len(ps) = 2
            /\ p <= 39 => Len(ps) >= 1
            /\ p > 39 => ps = <<>>

C6_Witness ==
    /\ call.fn = "generate_all_positions"
    /\ call.n = 15
    /\ Len(out.positions) = 4
    /\ out.positions[4] = [string |-> 1, fret |-> 0]

\* C7: every position generate_all_positions gives for a pitch p in 0..39 has
\* absolute_pitch p; and every position (s, f) with s in 1..4 and f in 0..24
\* is among the positions generated for its absolute_pitch.
C7_PitchPositionRoundTrip ==
    /\ (call.fn = "generate_all_positions" /\ call.n <= 39) =>
           \A i \in DOMAIN out.positions :
               absolute_pitch(out.positions[i]) = call.n
    /\ (call.fn = "absolute_pitch" /\ call.pos.string \in 1..4
           /\ call.pos.fret \in 0..24) =>
           call.pos \in Range(generate_all_positions(out.value))

C7_Witness ==
    /\ call.fn = "absolute_pitch"
    /\ call.pos = [string |-> 1, fret |-> 24]
    /\ out.value = 39
    /\ call.pos \in Range(generate_all_positions(out.value))

\* C8: calculate_score gives totalMovement * movementWeight + positionChanges
\* * positionChangeWeight + openStringCount * openStringWeight + stringChanges
\* * stringChangeWeight for every position sequence and weight set; under the
\* balanced weights (1.0, 2.0, -1.0, 0.5) each open-string position lowers
\* the score by 1, and [(4,0),(4,2)] scores lower than [(4,5),(4,10)].
C8_ScoreFormula ==
    (call.fn = "calculate_score") =>
        LET w == WeightsNamed(call.mode)
        IN  /\ out.value = Score(positions, w.movement_weight,
                                 w.position_change_weight, w.open_string_weight,
                                 w.string_change_weight)
            /\ call.mode = "balanced" =>
                   out.value = TotalMovement(positions) * 10
                               + PositionChanges(positions) * 20
                               + StringChanges(positions) * 5
                               - 10 * OpenStringCount(positions)
            /\ (call.mode = "balanced"
                   /\ positions = <<[string |-> 4, fret |-> 0],
                                    [string |-> 4, fret |-> 2]>>) =>
                   out.value < calculate_score(weights_balanced,
                                   <<[string |-> 4, fret |-> 5],
                                     [string |-> 4, fret |-> 10]>>)

C8_Witness ==
    /\ call.fn = "calculate_score"
    /\ call.mode = "balanced"
    /\ positions = <<[string |-> 4, fret |-> 0], [string |-> 3, fret |-> 5],
                     [string |-> 3, fret |-> 10]>>
    /\ out.value = 80 + 20 + 5 - 10

IsCall(fn, modes) ==
    \/ call.fn = fn
    \/ call.fn = "calculate_fingering" /\ call.mode \in modes

\* C9: on a non-empty in-range sequence the score of the pattern returned by
\* shortest, position-stable, open-string and string-priority is the score
\* formula on the returned positions with the strategy's own weights:
\* (10.0, 1.0, 0.0, 0.5), (1.0, 10.0, 0.0, 0.5), (1.0, 2.0, -5.0, 0.3) and
\* (0.5, 1.0, 0.0, -1.0).
C9_OwnWeights ==
    (pitches # <<>> /\ InRange(pitches)) =>
        /\ IsCall("calculate_shortest_path", {"shortest"}) =>
               out.status = "ok" /\ out.score = Score(out.positions, 100, 10, 0, 5)
        /\ IsCall("calculate_position_stable", {"position", "position-stable"}) =>
               out.status = "ok" /\ out.score = Score(out.positions, 10, 100, 0, 5)
        /\ IsCall("calculate_open_string", {"open", "open-string"}) =>
               out.status = "ok" /\ out.score = Score(out.positions, 10, 20, -50, 3)
        /\ IsCall("calculate_string_priority", {"string", "string-priority"}) =>
               out.status = "ok" /\ out.score = Score(out.positions, 5, 10, 0, -10)

\* [5,7,5] in open-string: (3,0), (3,2), (3,0), score -6.0.
C9_Witness ==
    /\ call.fn = "calculate_open_string"
    /\ pitches = <<5, 7, 5>>
    /\ out.status = "ok"
    /\ out.score = -60

ShortestCost(prev, c) ==
    Abs(prev.fret - c.fret) + 2 * Abs(prev.string - c.string)

\* C10: calculate_shortest_path is the greedy choice: position 1 is the
\* candidate of the first pitch with the least (fret, string); every later
\* position is a candidate of its pitch with the least |prev.fret - fret| +
\* 2 * |prev.string - string| from the position chosen just before it;
\* [0,1,3] gives three positions with totalMovement below 10.
C10_ShortestGreedy ==
    (IsCall("calculate_shortest_path", {"shortest"}) /\ pitches # <<>>
        /\ InRange(pitches)) =>
        LET ps == out.positions
        IN  /\ out.status = "ok"
            /\ Len(ps) = Len(pitches)
            /\ \A i \in DOMAIN pitches : ps[i] \in Candidates(pitches[i])
            /\ \A c \in Candidates(pitches[1]) :
                  \/ ps[1].fret < c.fret
                  \/ ps[1].fret = c.fret /\ ps[1].string <= c.string
            /\ \A i \in 2..Len(pitches) : \A c \in Candidates(pitches[i]) :
                  ShortestCost(ps[i - 1], ps[i]) <= ShortestCost(ps[i - 1], c)
            /\ pitches = <<0, 1, 3>> => (Len(ps) = 3 /\ TotalMovement(ps) < 10)

\* The second choice follows from the position chosen first, (3,0); from the
\* other candidate of pitch 5, (4,5), the nearest would be (3,5).
C10_Witness ==
    /\ call.fn = "calculate_shortest_path"
    /\ pitches = <<5, 10>>
    /\ out.status = "ok"
    /\ out.positions = <<[string |-> 3, fret |-> 0], [string |-> 2, fret |-> 0]>>

\* C11: in string-priority, for every pitch after the first, when some
\* candidate lies on another string than the position chosen before, the
\* chosen position is on another string and has the least string distance
\* among those candidates; a same-string candidate is chosen only when there
\* is no other (also when the pitch repeats the previous pitch).
C11_StringChangePreferred ==
    (IsCall("calculate_string_priority", {"string", "string-priority"})
        /\ pitches # <<>> /\ InRange(pitches)) =>
        /\ out.status = "ok"
        /\ \A i \in 2..Len(pitches) :
              LET prev == out.positions[i - 1]
                  chosen == out.positions[i]
                  others == {c \in Candidates(pitches[i]) : c.string # prev.string}
              IN  others # {} =>
                      /\ chosen \in others
                      /\ \A c \in others :
                            Abs(prev.string - chosen.string)
                            <= Abs(prev.string - c.string)

\* C12: in string-priority the first position is the candidate of the first
\* pitch with the least (|string - 3|, fret): on string 3 whenever the pitch
\* can be played there.
C12_StringPriorityFirst ==
    (IsCall("calculate_string_priority", {"string", "string-priority"})
        /\ pitches # <<>> /\ InRange(pitches)) =>
        LET first == out.positions[1]
        IN  /\ out.status = "ok"
            /\ first \in Candidates(pitches[1])
            /\ \A c \in Candidates(pitches[1]) :
                  \/ Abs(first.string - 3) < Abs(c.string - 3)
                  \/ /\ Abs(first.string - 3) = Abs(c.string - 3)
                     /\ first.fret <= c.fret
            /\ (\E c \in Candidates(pitches[1]) : c.string = 3) => first.string = 3

\* Pitch 24 can be played on every string; string 3, fret 19, is taken.
C12_Witness ==
    /\ call.fn = "calculate_string_priority"
    /\ Len(pitches) = 2
    /\ pitches[1] = 24
    /\ out.status = "ok"
    /\ out.positions[1] = [string |-> 3, fret |-> 19]

OpenPitches == {0, 5, 10, 15}

\* C13: open-string gives every pitch its candidate with fret 0 when there is
\* one and otherwise its candidate with the lowest fret; so openStringCount
\* of the result is the number of pitches that are 0, 5, 10 or 15, and at
\* least 1 when the sequence holds such a pitch, as [5,7,5] does.
C13_OpenStringChoice ==
    (IsCall("calculate_open_string", {"open", "open-string"})
        /\ pitches # <<>> /\ InRange(pitches)) =>
        LET ps == out.positions
        IN  /\ out.status = "ok"
            /\ Len(ps) = Len(pitches)
            /\ \A i \in DOMAIN pitches :
                  /\ ps[i] \in Candidates(pitches[i])
                  /\ (\E c \in Candidates(pitches[i]) : c.fret = 0) => ps[i].fret = 0
                  /\ \A c \in Candidates(pitches[i]) : ps[i].fret <= c.fret
            /\ OpenStringCount(ps)
               = Cardinality({i \in DOMAIN pitches : pitches[i] \in OpenPitches})
            /\ (\E i \in DOMAIN pitches : pitches[i] \in OpenPitches) =>
                   OpenStringCount(ps) >= 1
            /\ pitches = <<5, 7, 5>> => OpenStringCount(ps) = 2

C13_Witness ==
    /\ call.fn = "calculate_fingering"
    /\ call.mode = "open-string"
    /\ pitches = <<5, 7, 5>>
    /\ out.status = "ok"
    /\ out.positions = <<[string |-> 3, fret |-> 0], [string |-> 3, fret |-> 2],
                         [string |-> 3, fret |-> 0]>>

\* The base position of the call: the argument, or 5 from the entry point.
BaseOfCall == IF call.fn = "calculate_fingering" THEN 5 ELSE call.n

\* C14: position-stable with base b gives every pitch its candidate with the
\* least (|zone - b|, fret), the zone of an open string being 0; with b = 5
\* a candidate on frets 5..8 is chosen whenever the pitch has one.
C14_PositionStableChoice ==
    (IsCall("calculate_position_stable", {"position", "position-stable"})
        /\ pitches # <<>> /\ InRange(pitches)) =>
        LET ps == out.positions
            b == BaseOfCall
        IN  /\ out.status = "ok"
            /\ Len(ps) = Len(pitches)
            /\ \A i \in DOMAIN pitches :
                  /\ ps[i] \in Candidates(pitches[i])
                  /\ \A c \in Candidates(pitches[i]) :
                        \/ Abs(Zone(ps[i].fret) - b) < Abs(Zone(c.fret) - b)
                        \/ /\ Abs(Zone(ps[i].fret) - b) = Abs(Zone(c.fret) - b)
                           /\ ps[i].fret <= c.fret
                  /\ (b = 5 /\ \E c \in Candidates(pitches[i]) : c.fret \in 5..8) =>
                         ps[i].fret \in 5..8

\* Pitch 15 is an open string, yet with base 5 it goes to string 2, fret 5.
C14_Witness ==
    /\ call.fn = "calculate_position_stable"
    /\ call.n = 5
    /\ pitches = <<15, 0>>
    /\ out.status = "ok"
    /\ out.positions = <<[string |-> 2, fret |-> 5], [string |-> 4, fret |-> 0]>>

MetricCalls ==
    {"total_movement", "position_changes", "open_string_count", "string_changes"}

\* C15, as stated: each of the four metrics is at least 0, and all four are 0
\* for every sequence of length 0 or 1, a single position with fret 0
\* included.
C15_MetricsZeroOnShort ==
    call.fn \in MetricCalls =>
        /\ out.value >= 0
        /\ Len(positions) <= 1 => out.value = 0

\* C15, amended: each of the four metrics is at least 0; totalMovement,
\* positionChanges and stringChanges are 0 for every sequence of length 0 or
\* 1; openStringCount is 0 for the empty sequence and, for a single position,
\* 1 when its fret is 0 and 0 otherwise.
C15_MetricsOnShort ==
    call.fn \in MetricCalls =>
        /\ out.value >= 0
        /\ (Len(positions) <= 1 /\ call.fn # "open_string_count") => out.value = 0
        /\ (Len(positions) = 0 /\ call.fn = "open_string_count") => out.value = 0
        /\ (Len(positions) = 1 /\ call.fn = "open_string_count") =>
               out.value = (IF positions[1].fret = 0 THEN 1 ELSE 0)

C15_Witness ==
    /\ call.fn = "open_string_count"
    /\ positions = <<[string |-> 4, fret |-> 0]>>
    /\ out.value = 1

\* C16, as stated: for every position sequence, the empty one included,
\* openStringCount is at most the length and stringChanges at most the
\* length minus 1.
C16_MetricsBoundedByLength ==
    /\ call.fn = "open_string_count" => out.value <= Len(positions)
    /\ call.fn = "string_changes" => out.value <= Len(positions) - 1

\* C16, amended: for every position sequence openStringCount is at most the
\* length; stringChanges is at most the length minus 1 for a sequence that is
\* not empty, and 0 for the empty sequence.
C16_MetricsBounded ==
    /\ call.fn = "open_string_count" => out.value <= Len(positions)
    /\ (call.fn = "string_changes" /\ positions # <<>>) =>
           out.value <= Len(positions) - 1
    /\ (call.fn = "string_changes" /\ positions = <<>>) => out.value = 0

\* Three positions crossing strings twice: the limit is met.
C16_Witness ==
    /\ call.fn = "string_changes"
    /\ positions = <<[string |-> 4, fret |-> 0], [string |-> 3, fret |-> 0],
                     [string |-> 4, fret |-> 3]>>
    /\ out.value = 2

\* C17: totalMovement is the sum, over the consecutive pairs, of the fret
\* difference when both are on one string and of 1 + (fret difference div 2)
\* otherwise; [(4,3),(4,5),(3,5)] has totalMovement 3.
C17_TotalMovementFormula ==
    call.fn = "total_movement" =>
        /\ out.value = TotalMovement(positions)
        /\ positions = <<[string |-> 4, fret |-> 3], [string |-> 4, fret |-> 5],
                         [string |-> 3, fret |-> 5]>> => out.value = 3

C17_Witness ==
    /\ call.fn = "total_movement"
    /\ positions = <<[string |-> 4, fret |-> 3], [string |-> 4, fret |-> 5],
                     [string |-> 3, fret |-> 5]>>
    /\ out.value = 3

\* C18: positionChanges is the number of consecutive pairs whose zones differ
\* with neither zone 0; a move to or from an open string never counts, even
\* between fretted positions of different zones.
C18_PositionChangesFormula ==
    call.fn = "position_changes" =>
        /\ out.value = PositionChanges(positions)
        /\ \A i \in Pairs(positions) :
              (positions[i].fret = 0 \/ positions[i - 1].fret = 0) =>
                  out.value <= Len(positions) - 2
        /\ (Len(positions) = 3 /\ positions[2].fret = 0) => out.value = 0

\* Fret 2 (zone 1), an open string, fret 5 (zone 5): no change is counted.
C18_Witness ==
    /\ call.fn = "position_changes"
    /\ positions = <<[string |-> 4, fret |-> 2], [string |-> 4, fret |-> 0],
                     [string |-> 4, fret |-> 5]>>
    /\ out.value = 0

Zones == {0, 1, 5, 9, 13, 17, 21}

\* C19: position() gives 0 for fret 0 and ((fret - 1) div 4) * 4 + 1 for the
\* frets 1..24: frets 1..4 give 1, 5..8 give 5, 9..12 give 9; the result is
\* one of 0, 1, 5, 9, 13, 17, 21, and a fretted position lies within its zone
\* and the three frets above it.
C19_ZoneFunction ==
    call.fn = "position" =>
        LET fret == call.pos.fret
            zone == out.value
        IN  /\ fret = 0 => zone = 0
            /\ fret \in 1..MaxFret => zone = ((fret - 1) \div 4) * 4 + 1
            /\ fret \in 1..4 => zone = 1
            /\ fret \in 5..8 => zone = 5
            /\ fret \in 9..12 => zone = 9
            /\ zone \in Zones
            /\ fret # 0 => (zone <= fret /\ fret <= zone + 3)

\* Fret 8 is the last fret of zone 5.
C19_Witness ==
    /\ call.fn = "position"
    /\ call.pos.fret = 8
    /\ out.value = 5

\* The string and fret of every position of a list.
StringFretSet(ps) == {<<ps[i].string, ps[i].fret>> : i \in DOMAIN ps}

\* The open-string pitches of the presets, lowest string first.
PresetOffsets(name) ==
    CASE name = "bass_4" -> <<0, 5, 10, 15>>
      [] name = "bass_5" -> <<0 - 5, 0, 5, 10, 15>>
      [] name = "bass_6" -> <<0 - 5, 0, 5, 10, 15, 20>>
      [] name = "bass_drop_d" -> <<0 - 2, 5, 10, 15>>

OffsetsOf(tuning) == [i \in DOMAIN tuning.strings |-> tuning.strings[i].offset]

\* C21: the lookup by name gives the preset for exactly the names bass_4,
\* bass_5, bass_6 and bass_drop_d and nothing for any other name; with any
\* other name get_chord_positions_with_tuning and get_tuning_info give what
\* they give for bass_4, and report no error.
C21_TuningLookup ==
    /\ call.fn = "from_name" =>
          /\ out.value.some <=>
                 call.mode \in {"bass_4", "bass_5", "bass_6", "bass_drop_d"}
          /\ out.value.some =>
                 /\ out.value.value.name = call.mode
                 /\ OffsetsOf(out.value.value) = PresetOffsets(call.mode)
    /\ (call.fn = "get_tuning_info"
            /\ call.mode \notin {"bass_4", "bass_5", "bass_6", "bass_drop_d"}) =>
          /\ out.status = "ok"
          /\ out.value.name = "bass_4"
          /\ OffsetsOf(out.value) = <<0, 5, 10, 15>>
          /\ out.value.max_fret = 24
          /\ out.value = get_tuning_info("bass_4")
    /\ (call.fn = "get_chord_positions_with_tuning"
            /\ call.mode \notin {"bass_4", "bass_5", "bass_6", "bass_drop_d"}) =>
          /\ out.status = "ok"
          /\ out.positions = get_chord_positions_with_tuning(call.chord, "bass_4")
          /\ \A i \in DOMAIN out.positions : out.positions[i].string \in 1..4

\* "bass_50" is no preset: the chord C comes back on four strings.
C21_Witness ==
    /\ call.fn = "get_chord_positions_with_tuning"
    /\ call.chord = "C"
    /\ call.mode = "bass_50"
    /\ out.status = "ok"
    /\ Len(out.positions) > 0
    /\ \E i \in DOMAIN out.positions :
          out.positions[i].string = 4 /\ out.positions[i].fret = 8

\* C22: under each preset (offsets strictly increasing, 24 frets) and for
\* every absolute pitch p, convert_to_positions gives a position for the
\* string at index i exactly when offset_i <= p <= offset_i + 24, with fret
\* p - offset_i and string number N - i, string 1 being the highest; the
\* result is not empty for p from the lowest offset to the highest + 24.
C22_ConvertRanges ==
    /\ (call.fn = "from_name" /\ out.value.some) =>
          LET offs == OffsetsOf(out.value.value)
          IN  /\ \A i \in 2..Len(offs) : offs[i - 1] < offs[i]
              /\ out.value.value.max_fret = 24
    /\ call.fn = "convert_to_positions" =>
          LET offs == PresetOffsets(call.mode)
              N == Len(offs)
              p == call.n
              expected == {<<N - (i - 1), p - offs[i]>> :
                              i \in {j \in 1..N : offs[j] <= p /\ p <= offs[j] + 24}}
          IN  /\ out.status = "ok"
              /\ StringFretSet(out.positions) = expected
              /\ Len(out.positions) = Cardinality(expected)
              /\ \A i \in DOMAIN out.positions : out.positions[i].fret \in 0..24
              /\ (offs[1] <= p /\ p <= offs[N] + 24) => out.positions # <<>>

\* Pitch 20 on the six-string preset: strings 5 down to 1, not the low B.
C22_Witness ==
    /\ call.fn = "convert_to_positions"
    /\ call.mode = "bass_6"
    /\ call.n = 20
    /\ Len(out.positions) = 5
    /\ StringFretSet(out.positions)
       = {<<5, 20>>, <<4, 15>>, <<3, 10>>, <<2, 5>>, <<1, 0>>}

\* C23: for every pitch p in 0..39 the (string, fret) pairs of
\* generate_all_positions(p) are those of convert_to_positions for p under
\* bass_4, and for every pitch outside 0..39 both give nothing.
C23_GeneratorsAgree ==
    (call.fn = "convert_to_positions" /\ call.mode = "bass_4"
        /\ call.n \in 0..U8Max) =>
        LET hardcoded == generate_all_positions(call.n)
        IN  /\ StringFretSet(out.positions) = StringFretSet(hardcoded)
            /\ Len(out.positions) = Len(hardcoded)
            /\ call.n \notin 0..39 => (out.positions = <<>> /\ hardcoded = <<>>)

C23_Witness ==
    /\ call.fn = "convert_to_positions"
    /\ call.mode = "bass_4"
    /\ call.n = 24
    /\ Len(out.positions) = 4
    /\ Len(generate_all_positions(24)) = 4

\* C25: for every absolute pitch, every (string number, fret) pair that
\* convert_to_positions gives under bass_4 it also gives under bass_5, so
\* bass_5 never has fewer positions than bass_4.
C25_FiveStringKeepsPositions ==
    /\ (call.fn = "convert_to_positions" /\ call.mode = "bass_5") =>
          LET four == convert_to_positions(
                          <<FretWithPitch("1", call.n, PitchLabel("E", 0))>>, bass_4)
          IN  /\ StringFretSet(four) \subseteq StringFretSet(out.positions)
              /\ Len(out.positions) >= Len(four)
    /\ (call.fn = "get_chord_positions_with_tuning" /\ call.mode = "bass_5") =>
          LET four == get_chord_positions_with_tuning(call.chord, "bass_4")
          IN  /\ StringFretSet(four) \subseteq StringFretSet(out.positions)
              /\ Len(out.positions) >= Len(four)

\* Pitch 10: the three positions of the four-string bass and string 5, fret 15.
C25_Witness ==
    /\ call.fn = "convert_to_positions"
    /\ call.mode = "bass_5"
    /\ call.n = 10
    /\ StringFretSet(out.positions)
       = {<<5, 15>>, <<4, 10>>, <<3, 5>>, <<2, 0>>}

\* C24: in position-stable (any base) and in open-string the position of the
\* pitch at index i is the one returned for the one-pitch sequence of that
\* pitch; equal pitches get equal positions, and the result for two sequences
\* joined is the two results joined.
C24_PathIndependence ==
    /\ (IsCall("calculate_position_stable", {"position", "position-stable"})
            /\ InRange(pitches)) =>
          LET ps == out.positions
              b == BaseOfCall
          IN  /\ out.status = "ok"
              /\ Len(ps) = Len(pitches)
              /\ \A i \in DOMAIN pitches :
                    ps[i] = calculate_position_stable(<<pitches[i]>>, b).positions[1]
              /\ \A i, j \in DOMAIN pitches : pitches[i] = pitches[j] => ps[i] = ps[j]
              /\ \A k \in 0..Len(pitches) :
                    ps = calculate_position_stable(SubSeq(pitches, 1, k), b).positions
                         \o calculate_position_stable(
                                SubSeq(pitches, k + 1, Len(pitches)), b).positions
    /\ (IsCall("calculate_open_string", {"open", "open-string"})
            /\ InRange(pitches)) =>
          LET ps == out.positions
          IN  /\ out.status = "ok"
              /\ Len(ps) = Len(pitches)
              /\ \A i \in DOMAIN pitches :
                    ps[i] = calculate_open_string(<<pitches[i]>>).positions[1]
              /\ \A i, j \in DOMAIN pitches : pitches[i] = pitches[j] => ps[i] = ps[j]
              /\ \A k \in 0..Len(pitches) :
                    ps = calculate_open_string(SubSeq(pitches, 1, k)).positions
                         \o calculate_open_string(
                                SubSeq(pitches, k + 1, Len(pitches))).positions

\* Pitch 10 twice around pitch 3, base 9: both are put on string 4, fret 10.
C24_Witness ==
    /\ call.fn = "calculate_position_stable"
    /\ call.n = 9
    /\ pitches = <<10, 3, 10>>
    /\ out.status = "ok"
    /\ out.positions[1] = [string |-> 4, fret |-> 10]
    /\ out.positions[3] = [string |-> 4, fret |-> 10]

\* The positions a strategy gives for a sequence, by the name of its call.
PositionsBy(fn, ptchs, b) ==
    CASE fn = "calculate_shortest_path" -> calculate_shortest_path(ptchs).positions
      [] fn = "calculate_position_stable" ->
             calculate_position_stable(ptchs, b).positions
      [] fn = "calculate_open_string" -> calculate_open_string(ptchs).positions
      [] fn = "calculate_string_priority" ->
             calculate_string_priority(ptchs).positions

PrefixStableCalls ==
    {"calculate_shortest_path", "calculate_position_stable",
     "calculate_open_string", "calculate_string_priority"}

\* C26: for shortest, position-stable, open-string and string-priority, and
\* every in-range sequence and every k up to its length, the positions for the
\* first k pitches alone are the first k positions for the whole sequence: a
\* later pitch appends one position and changes none before it.
C26_PrefixStability ==
    (call.fn \in PrefixStableCalls /\ InRange(pitches)) =>
        /\ out.status = "ok"
        /\ Len(out.positions) = Len(pitches)
        /\ \A k \in 0..Len(pitches) :
              PositionsBy(call.fn, SubSeq(pitches, 1, k), call.n)
              = SubSeq(out.positions, 1, k)

\* Shortest on [24, 10, 0]: the first two positions are those of [24, 10].
C26_Witness ==
    /\ call.fn = "calculate_shortest_path"
    /\ pitches = <<24, 10, 0>>
    /\ out.status = "ok"
    /\ Len(out.positions) = 3
    /\ SubSeq(out.positions, 1, 2) = calculate_shortest_path(<<24, 10>>).positions
    /\ out.positions[1] = [string |-> 1, fret |-> 9]

\* C27: in string-priority, for a pitch after the first, when the position
\* chosen before is on string 3 and the pitch has candidates on strings 4 and
\* 2, or it is on string 2 and the pitch has candidates on strings 3 and 1,
\* the candidate with the higher string number is chosen, whatever the fret
\* distance.
C27_EquidistantStrings ==
    (IsCall("calculate_string_priority", {"string", "string-priority"})
        /\ pitches # <<>> /\ InRange(pitches)) =>
        /\ out.status = "ok"
        /\ \A i \in 2..Len(pitches) :
              LET prev == out.positions[i - 1]
                  strings == {c.string : c \in Candidates(pitches[i])}
              IN  /\ (prev.string = 3 /\ {4, 2} \subseteq strings) =>
                         out.positions[i].string = 4
                  /\ (prev.string = 2 /\ {3, 1} \subseteq strings) =>
                         out.positions[i].string = 3

\* C28: when two or all three of the patterns compared by balanced share the
\* least score under the balanced weights, the positions returned are those
\* of the earliest of them in the order shortest, position-stable (base 5),
\* open-string.
C28_BalancedTieBreak ==
    (IsCall("calculate_balanced", {"balanced"})
        /\ pitches # <<>> /\ InRange(pitches)) =>
        LET tried == <<calculate_shortest_path(pitches).positions,
                       calculate_position_stable(pitches, 5).positions,
                       calculate_open_string(pitches).positions>>
            least == {i \in 1..3 :
                         \A j \in 1..3 : ScoreBalanced(tried[i]) <= ScoreBalanced(tried[j])}
            earliest == CHOOSE i \in least : \A j \in least : i <= j
        IN  /\ out.status = "ok"
            /\ out.positions = tried[earliest]

\* Shortest and position-stable differ and share the least score: the
\* positions of shortest come back.
C28_Witness ==
    /\ call.fn = "calculate_balanced"
    /\ pitches # <<>>
    /\ InRange(pitches)
    /\ LET s == calculate_shortest_path(pitches).positions
           p == calculate_position_stable(pitches, 5).positions
           o == calculate_open_string(pitches).positions
       IN  /\ s # p
           /\ ScoreBalanced(s) = ScoreBalanced(p)
           /\ ScoreBalanced(s) <= ScoreBalanced(o)
           /\ out.positions = s

\* C30: position-stable with base 5 takes an open string only for pitch 0:
\* for every in-range sequence openStringCount of the result is the number of
\* pitches equal to 0, though pitches 5, 10 and 15 are open strings too.
C30_BaseFiveOpenStrings ==
    (IsCall("calculate_position_stable", {"position", "position-stable"})
        /\ BaseOfCall = 5 /\ InRange(pitches)) =>
        /\ out.status = "ok"
        /\ OpenStringCount(out.positions)
           = Cardinality({i \in DOMAIN pitches : pitches[i] = 0})
        /\ \A i \in DOMAIN out.positions :
              out.positions[i].fret = 0 <=> pitches[i] = 0

C30_Witness ==
    /\ call.fn = "calculate_fingering"
    /\ call.mode = "position"
    /\ pitches = <<0, 5, 15>>
    /\ out.status = "ok"
    /\ out.positions = <<[string |-> 4, fret |-> 0], [string |-> 4, fret |-> 5],
                         [string |-> 2, fret |-> 5]>>

\* The selection key of a step, restated: tuples compared in order.
StepKey(fn, prev, b, c) ==
    CASE fn = "shortest_first_step" -> <<c.fret, c.string>>
      [] fn = "shortest_next_step" -> <<ShortestCost(prev, c)>>
      [] fn = "position_stable_step" -> <<Abs(Zone(c.fret) - b), c.fret>>
      [] fn = "open_string_step" -> IF c.fret = 0 THEN <<0, 0>> ELSE <<1, c.fret>>

StepCalls ==
    {"shortest_first_step", "shortest_next_step", "position_stable_step",
     "open_string_step"}

\* The candidates of a pitch in the opposite order of enumeration.
Reversed(s) == [i \in DOMAIN s |-> s[Len(s) + 1 - i]]

\* C29: for shortest (the first step, and every later step from any previous
\* position on strings 1..4, frets 0..24), for position-stable (any base
\* 0..24) and for open-string, exactly one candidate of every pitch 0..39 has
\* the least selection key, so the position chosen does not depend on the
\* order in which the candidates are enumerated.
C29_UniqueMinimizer ==
    (call.fn \in StepCalls /\ call.n \in 0..39) =>
        LET chosen == out.value
            cands == Candidates(call.n)
            reversed == Reversed(generate_all_positions(call.n))
        IN  /\ chosen \in cands
            /\ \A c \in cands \ {chosen} :
                  LexLess(StepKey(call.fn, call.pos, call.base, chosen),
                          StepKey(call.fn, call.pos, call.base, c))
            /\ chosen = (CASE call.fn = "shortest_first_step" ->
                                  shortest_first_step(reversed)
                           [] call.fn = "shortest_next_step" ->
                                  shortest_next_step(call.pos, reversed)
                           [] call.fn = "position_stable_step" ->
                                  position_stable_step(call.base, reversed)
                           [] call.fn = "open_string_step" ->
                                  open_string_step(reversed))

\* From string 3, fret 10, pitch 15 costs 7 on string 4 and on string 2 alike,
\* but 0 where the hand is: the equal costs are not the least.
C29_Witness ==
    /\ call.fn = "shortest_next_step"
    /\ call.pos = [string |-> 3, fret |-> 10]
    /\ call.n = 15
    /\ ShortestCost(call.pos, [string |-> 4, fret |-> 15])
       = ShortestCost(call.pos, [string |-> 2, fret |-> 5])
    /\ out.value = [string |-> 3, fret |-> 10]

====
